---- MODULE Spec2Model ----
(***************************************************************************)
(* The G-code -> STL conversion of gcode_to_stl_ultra.py:                  *)
(*   parse_gcode_to_segments            (the extractor)                    *)
(*   create_cylindrical_extrusion_mesh  (the geometry builder)             *)
(*   write_stl_binary                   (the serializer)                   *)
(*   gcode_to_stl_ultra                 (the three, one after the other)   *)
(*                                                                         *)
(* Numbers.  The program computes in IEEE doubles.  The model computes in  *)
(* fixed point: every length, height, width and E value is an integer      *)
(* count of hundredths (0.2 mm is 20, 10 mm is 1000).  Vertex positions    *)
(* of the mesh are exact elements of Q(sqrt 2), see Q below.               *)
(***************************************************************************)
EXTENDS Integers, Sequences, FiniteSets, TLC

VARIABLES
    pc,                        \* position of the running function
    line_num, line,            \* extractor: index of the next line, the line last read
    segments,                  \* extractor: the list being built; builder: its argument
    current_z, last_x, last_y, last_z, last_e,
    detected_layer_height, detected_extrusion_width,
    i, vertices, faces, vertex_count, base_idx,   \* builder
    caps,                      \* builder, history: the cap fans appended so far
    mesh, file, k, run, out1,                     \* serializer
    ascii,                     \* gcode_to_stl.py: the locals of its extractor
    input,                     \* history: the lines both extractors have read
    rect                       \* gcode_to_stl.py: the locals of its mesh builder

parseVars == <<line_num, line, current_z, last_x, last_y, last_z, last_e,
               detected_layer_height, detected_extrusion_width>>
buildVars == <<i, vertices, faces, vertex_count, base_idx, caps>>
stlVars   == <<mesh, file, k, run, out1>>
asciiVars == <<ascii, input>>
vars      == <<pc, segments, parseVars, buildVars, stlVars, asciiVars, rect>>

\* an optional number: None, or Some(v) holding the float v
None == <<>>
Some(v) == <<v>>
Val(o) == o[1]

(***************************************************************************)
(* Bounds of the model.                                                    *)
(***************************************************************************)
MaxLines == 5        \* lines of an input file
MaxSegs  == 5        \* segments handed to the builder
MaxFaces == 2        \* faces of a mesh handed to the serializer

(***************************************************************************)
(* Program constants, in hundredths where they are lengths.                *)
(***************************************************************************)
default_layer_height    == 20      \* 0.2
default_extrusion_width == 40      \* 0.4
HintLines == 100                   \* line_num < 100
MinZStep  == 10                    \* 0.1 <= z_diff
MaxZStep  == 100                   \* z_diff <= 1.0
MinWidth  == 10                    \* max(actual_width, 0.1)
MaxWidth  == 200                   \* min(..., 2.0)
step      == 2                     \* sampled_segments = segments[::step]
num_sides == 8                     \* sides of the cross-section
EpsInv    == 10                    \* segment_length < 0.001, a tenth of a hundredth
HeaderPad == 24                    \* b'\x00' * 24

Min(a, b) == IF a <= b THEN a ELSE b
Max(a, b) == IF a >= b THEN a ELSE b

\* floor of the square root of n >= 0, by bisection of lo..hi (lo*lo <= n < hi*hi)
RECURSIVE ISqrtIn(_, _, _)
ISqrtIn(n, lo, hi) ==
    IF hi - lo <= 1 THEN lo
    ELSE LET mid == (lo + hi) \div 2
         IN IF mid * mid <= n THEN ISqrtIn(n, mid, hi) ELSE ISqrtIn(n, lo, mid)
ISqrt(n) == ISqrtIn(n, 0, 32768)

(***************************************************************************)
(* Input lines.  A line is modelled after strip() and after the regex      *)
(* searches: cmd is the text of its first word, character by character;    *)
(* X, Y, Z, E are the numbers the searches X(..), Y(..), Z(..), E(..)      *)
(* capture, or None when a search finds nothing.  malformed holds the      *)
(* letters of the fields that are written in the line but followed by      *)
(* something the number pattern does not match ('Xabc'): their search      *)
(* finds nothing.  For a comment, text is its wording, character by        *)
(* character, and num is what the first search of the number pattern       *)
(* captures in the line (or None).                                         *)
(***************************************************************************)
Malformed(cmd, x, y, z, e, bad) ==
    [cmd |-> cmd, X |-> x, Y |-> y, Z |-> z, E |-> e,
     malformed |-> bad, text |-> <<>>, num |-> None]
Motion(cmd, x, y, z, e) == Malformed(cmd, x, y, z, e, {})
Comment(text, n) ==
    [cmd |-> <<";">>, X |-> None, Y |-> None, Z |-> None, E |-> None,
     malformed |-> {}, text |-> text, num |-> n]

G0 == <<"G", "0">>
G1 == <<"G", "1">>

\* the wording of the comments of the input files
TextLayerHeight == 
    <<"l", "a", "y", "e", "r", "_", "h", "e", "i", "g", "h", "t">>
TextExtrusionWidth == 
    <<"e", "x", "t", "r", "u", "s", "i", "o", "n", " ", "w", "i", "d", "t", "h">>
TextBoth == 
    <<"L", "a", "y", "e", "r", " ", "H", "e", "i", "g", "h", "t", ",", " ", "E", "x", "t", "r", "u", "s", "i", "o", "n", "_", "W", "i", "d", "t", "h">>
TextUpper == 
    <<"L", "A", "Y", "E", "R", "_", "H", "E", "I", "G", "H", "T">>
TextMixed == 
    <<"E", "x", "t", "r", "u", "s", "i", "o", "n", " ", "W", "i", "d", "t", "h">>
TextNoSeparator == 
    <<"l", "a", "y", "e", "r", "h", "e", "i", "g", "h", "t">>
TextOther == 
    <<"w", "i", "d", "t", "h">>

LinePool ==
    { Comment(TextLayerHeight, Some(0)),          \* ; layer_height = 0
      Comment(TextExtrusionWidth, Some(500)),     \* ; extrusion width = 5
      Comment(TextBoth, None),                    \* ; Layer Height, Extrusion_Width
      Motion(G1, Some(0), Some(0), None, Some(0)),            \* G1 X0 Y0 E0
      Motion(G1, Some(1000), None, None, Some(500)),    \* G1 X10 E5
      Motion(G1, Some(1000), Some(0), None, Some(500)),   \* G1 X10 Y0 E5
      Motion(G1, None, Some(1000), None, Some(1000)),   \* G1 Y10 E10
      Motion(G0, Some(1000), Some(1000), None, None),   \* G0 X10 Y10
      Motion(G1, Some(1000), Some(1000), None, None),   \* G1 X10 Y10
      Motion(G1, None, None, None, Some(1500)),   \* G1 E15
      Motion(G1, None, None, None, Some(200)),    \* G1 E2
      Motion(G0, None, None, Some(20), None),     \* G0 Z0.2
      Motion(G1, None, None, Some(40), None),     \* G1 Z0.4
      Malformed(G1, None, Some(500), None, Some(100), {"X"}),   \* G1 Xabc Y5 E1
      Motion(<<"G", "9", "2">>, None, None, None, Some(0)),   \* G92 E0
      Motion(<<"G", "1", "0">>, Some(1000), Some(1000), None, None) \* G10 P0 X10 Y10
    }

\* the value of line before the first line is read
NoLine == Motion(<<>>, None, None, None, None)
NoMesh == [vertices |-> <<>>, faces |-> <<>>]

StartsWith(s, p) == Len(s) >= Len(p) /\ SubSeq(s, 1, Len(p)) = p

(***************************************************************************)
(* parse_gcode_to_segments                                                 *)
(***************************************************************************)
IsComment(l) == StartsWith(l.cmd, <<";">>)
Recognized(l) == StartsWith(l.cmd, G1) \/ StartsWith(l.cmd, G0)

\* a variant of ResolveAxis: an omitted axis resolves to the default 0.0
ResolveAxisDefault(m, last) == IF m # None THEN m ELSE Some(0)

\* x = float(x_match.group(1)) if x_match else last_x
ResolveAxis(m, last) == IF m # None THEN m ELSE last

\* line.lower(), letter by letter
UpperCase ==
    <<"A", "B", "C", "D", "E", "F", "G", "H", "I", "J", "K", "L", "M", "N", "O", "P", "Q", "R", "S", "T", "U", "V", "W", "X", "Y", "Z">>
LowerCase ==
    <<"a", "b", "c", "d", "e", "f", "g", "h", "i", "j", "k", "l", "m", "n", "o", "p", "q", "r", "s", "t", "u", "v", "w", "x", "y", "z">>
ToLower(c) ==
    IF \E n \in 1..Len(UpperCase) : UpperCase[n] = c
    THEN LowerCase[CHOOSE n \in 1..Len(UpperCase) : UpperCase[n] = c]
    ELSE c
Lower(s) == [n \in 1..Len(s) |-> ToLower(s[n])]

\* p in s, for strings
Contains(s, p) == \E n \in 0..(Len(s) - Len(p)) : SubSeq(s, n + 1, n + Len(p)) = p

\* 'layer_height' in line.lower() or 'layer height' in line.lower()
HasLayerKw(t) ==
    \/ Contains(Lower(t), 
         <<"l", "a", "y", "e", "r", "_", "h", "e", "i", "g", "h", "t">>)
    \/ Contains(Lower(t), 
         <<"l", "a", "y", "e", "r", " ", "h", "e", "i", "g", "h", "t">>)
\* 'extrusion_width' in line.lower() or 'extrusion width' in line.lower()
HasWidthKw(t) ==
    \/ Contains(Lower(t), 
         <<"e", "x", "t", "r", "u", "s", "i", "o", "n", "_", "w", "i", "d", "t", "h">>)
    \/ Contains(Lower(t), 
         <<"e", "x", "t", "r", "u", "s", "i", "o", "n", " ", "w", "i", "d", "t", "h">>)

\* the two keyword tests, tabulated for the wordings of the input files
Texts == {<<>>, TextLayerHeight, TextExtrusionWidth, TextBoth, TextUpper, TextMixed,
          TextNoSeparator, TextOther}
KwTable == [t \in Texts |-> [layer |-> HasLayerKw(t), width |-> HasWidthKw(t)]]

\* a variant of HintLayer: the hint is honoured on every line of the file
HintLayerAnyLine(l, n, dlh) ==
    IF IsComment(l) /\ KwTable[l.text].layer /\ l.num # None THEN Val(l.num) ELSE dlh

\* the comment hints of the first HintLines lines
HintLayer(l, n, dlh) ==
    IF n < HintLines /\ IsComment(l) /\ KwTable[l.text].layer /\ l.num # None
    THEN Val(l.num) ELSE dlh
HintWidth(l, n, dew) ==
    IF n < HintLines /\ IsComment(l) /\ KwTable[l.text].width /\ l.num # None
    THEN Val(l.num) ELSE dew

\* a variant of ZLayerHeight: a Z step is accepted only while the layer height
\* is still the default one, so that a comment hint has priority over it
ZLayerHeightOnce(l, lz, dlh) ==
    IF dlh = default_layer_height
          /\ l.Z # None /\ lz # None /\ Val(l.Z) > Val(lz)
          /\ MinZStep <= Val(l.Z) - Val(lz) /\ Val(l.Z) - Val(lz) <= MaxZStep
    THEN Val(l.Z) - Val(lz) ELSE dlh

\* the layer height after the Z block of a motion line
ZLayerHeight(l, lz, dlh) ==
    IF l.Z # None /\ lz # None /\ Val(l.Z) > Val(lz)
          /\ MinZStep <= Val(l.Z) - Val(lz) /\ Val(l.Z) - Val(lz) <= MaxZStep
    THEN Val(l.Z) - Val(lz) ELSE dlh

\* a variant of IsExtruding: the E value is compared with zero
IsExtrudingAboveZero(l, e, le) == l.E # None /\ e > 0

\* a variant of IsExtruding: e >= last_e
IsExtrudingNotStrict(l, e, le) == l.E # None /\ e >= le

\* is_extruding = e_match is not None and e > last_e
IsExtruding(l, e, le) == l.E # None /\ e > le

\* the condition under which a motion line appends a segment
EmitCond(l, x, y, e, lx, ly, le) ==
    IsExtruding(l, e, le) /\ x # None /\ y # None /\ lx # None /\ ly # None

\* the square of segment_length
LenSq2(x, y, lx, ly) == (x - lx) * (x - lx) + (y - ly) * (y - ly)

Clamp(w) == Min(Max(w, MinWidth), MaxWidth)

\* actual_width of an emitted segment; amount = e - last_e.  The quotient is
\* taken in fixed point, with the floor of the square root as the length.
ActualWidth(amount, lensq, dlh, dew) ==
    IF lensq > 0
    THEN Clamp(IF dlh > 0
               THEN (amount * 100 * 100) \div (ISqrt(lensq) * dlh)
               ELSE dew)
    ELSE dew

\* a variant of Segment: the segment starts at Z 0.0 whatever the current Z
SegmentFromBed(x, y, e, z, lx, ly, le, dlh, dew) ==
    [start |-> <<lx, ly, 0>>, end |-> <<x, y, z>>,
     width |-> ActualWidth(e - le, LenSq2(x, y, lx, ly), dlh, dew),
     height |-> dlh,
     extrusion_amount |-> e - le]

\* the dictionary appended to segments; x, y, lx, ly are numbers here
Segment(x, y, e, z, lx, ly, le, dlh, dew) ==
    [start |-> <<lx, ly, z>>, end |-> <<x, y, z>>,
     width |-> ActualWidth(e - le, LenSq2(x, y, lx, ly), dlh, dew),
     height |-> dlh,
     extrusion_amount |-> e - le]

\* a variant of LastAfter: the position moves only when a segment was appended
LastAfterEmit(new, old, emit) == IF emit THEN new ELSE old

\* last_x, last_y, last_e = x, y, e is the last statement of the motion block,
\* outside the block of 'if is_extruding and ...': the new value is kept whether
\* or not a segment was appended
LastAfter(new, old, emit) == new

\* one iteration of the loop over the lines of the file
ReadLine(l) ==
    /\ pc = "scan"
    /\ line' = l
    /\ line_num' = line_num + 1
    /\ LET hl == HintLayer(l, line_num, detected_layer_height)
           hw == HintWidth(l, line_num, detected_extrusion_width)
       IN IF Recognized(l)
          THEN LET x   == ResolveAxis(l.X, last_x)
                   y   == ResolveAxis(l.Y, last_y)
                   e   == Val(ResolveAxis(l.E, Some(last_e)))
                   dlh == ZLayerHeight(l, last_z, hl)
                   z   == Val(ResolveAxis(l.Z, Some(current_z)))
                   emit == EmitCond(l, x, y, e, last_x, last_y, last_e)
               IN /\ detected_layer_height' = dlh
                  /\ detected_extrusion_width' = hw
                  /\ last_z' = IF l.Z # None THEN Some(current_z) ELSE last_z
                  /\ current_z' = z
                  /\ segments' =
                       IF emit
                       THEN Append(segments,
                                   Segment(Val(x), Val(y), e, z, Val(last_x), Val(last_y),
                                           last_e, dlh, hw))
                       ELSE segments
                  /\ last_x' = LastAfter(x, last_x, emit)
                  /\ last_y' = LastAfter(y, last_y, emit)
                  /\ last_e' = LastAfter(e, last_e, emit)
          ELSE /\ detected_layer_height' = hl
               /\ detected_extrusion_width' = hw
               /\ UNCHANGED <<segments, current_z, last_x, last_y, last_z, last_e>>
    /\ UNCHANGED <<pc, buildVars, stlVars, rect>>

\* the end of the file: the function returns
EndOfFile ==
    /\ pc = "scan"
    /\ pc' = "parsed"
    /\ UNCHANGED <<segments, parseVars, buildVars, stlVars, asciiVars, rect>>

\* the locals of the extractor of gcode_to_stl.py before its first line, and
\* those of its mesh builder before it is called
AsciiInit ==
    [segments |-> <<>>, current_z |-> 0, last_x |-> None, last_y |-> None,
     last_z |-> None,
     detected_layer_height |-> default_layer_height,
     detected_extrusion_width |-> default_extrusion_width]
NoRect == [segments |-> <<>>, step |-> 0, sampled_segments |-> <<>>]

\* the locals of the three functions before any of them has run
InitLocals ==
    /\ line_num = 0 /\ line = NoLine
    /\ current_z = 0 /\ last_x = None /\ last_y = None /\ last_z = None /\ last_e = 0
    /\ detected_layer_height = default_layer_height
    /\ detected_extrusion_width = default_extrusion_width
    /\ i = 0 /\ vertices = <<>> /\ faces = <<>> /\ vertex_count = 0 /\ base_idx = 0 /\ caps = <<>>
    /\ ascii = AsciiInit /\ input = <<>> /\ rect = NoRect

InitParse ==
    /\ pc = "scan"
    /\ segments = <<>>
    /\ file = <<>>
    /\ InitLocals
    /\ mesh = NoMesh /\ k = 0 /\ run = 0 /\ out1 = <<>>

NextParse ==
    \/ \E l \in LinePool : line_num < MaxLines /\ ReadLine(l) /\ UNCHANGED asciiVars
    \/ EndOfFile

SpecParse == InitParse /\ [][NextParse]_vars

\* input files long enough to have comment lines after the first HintLines
\* lines, made of comments in several wordings and one motion line
MaxHintLines == 102

HintPool ==
    { Comment(TextUpper, Some(30)),             \* ; LAYER_HEIGHT = 0.3
      Comment(TextBoth, Some(25)),              \* ; Layer Height, Extrusion_Width 0.25
      Comment(TextMixed, Some(50)),             \* ; Extrusion Width = 0.5
      Comment(TextNoSeparator, Some(35)),       \* ; layerheight 0.35
      Comment(TextOther, Some(45)),             \* ; width 0.45
      Comment(TextExtrusionWidth, None),        \* ; extrusion width: auto
      Motion(G1, Some(0), Some(0), None, Some(0))     \* G1 X0 Y0 E0
    }

NextHints ==
    \/ \E l \in HintPool : line_num < MaxHintLines /\ ReadLine(l) /\ UNCHANGED asciiVars
    \/ EndOfFile

SpecHints == InitParse /\ [][NextHints]_vars

(***************************************************************************)
(* gcode_to_stl.py: parse_gcode_to_segments.  Its comment hints, its       *)
(* motion test, its axis resolution and its Z block are, statement for     *)
(* statement, those of gcode_to_stl_ultra.py; it keeps no extrusion        *)
(* register.  The record a holds its locals.                               *)
(***************************************************************************)
\* is_extruding = e_match is not None and float(e_match.group(1)) > 0
AsciiIsExtruding(l) == l.E # None /\ Val(l.E) > 0

\* a variant of AsciiSegment: the height is the default one, not the detected one
AsciiSegmentDefaultHeight(x, y, z, lx, ly, dlh, dew) ==
    [start |-> <<lx, ly, z>>, end |-> <<x, y, z>>,
     width |-> dew, height |-> default_layer_height]

\* the dictionary appended to segments
AsciiSegment(x, y, z, lx, ly, dlh, dew) ==
    [start |-> <<lx, ly, z>>, end |-> <<x, y, z>>, width |-> dew, height |-> dlh]

\* the locals after one iteration of the loop, on the line l of index n
AsciiReadLine(a, l, n) ==
    LET hl == HintLayer(l, n, a.detected_layer_height)
        hw == HintWidth(l, n, a.detected_extrusion_width)
    IN IF Recognized(l)
       THEN LET x   == ResolveAxis(l.X, a.last_x)
                y   == ResolveAxis(l.Y, a.last_y)
                dlh == ZLayerHeight(l, a.last_z, hl)
                z   == Val(ResolveAxis(l.Z, Some(a.current_z)))
                emit == /\ AsciiIsExtruding(l)
                        /\ x # None /\ y # None /\ a.last_x # None /\ a.last_y # None
            IN [segments |->
                    IF emit
                    THEN Append(a.segments,
                                AsciiSegment(Val(x), Val(y), z, Val(a.last_x),
                                             Val(a.last_y), dlh, hw))
                    ELSE a.segments,
                current_z |-> z,
                last_x |-> x, last_y |-> y,
                last_z |-> IF l.Z # None THEN Some(a.current_z) ELSE a.last_z,
                detected_layer_height |-> dlh,
                detected_extrusion_width |-> hw]
       ELSE [a EXCEPT !.detected_layer_height = hl, !.detected_extrusion_width = hw]

\* the two extractors read the same line of the same file
ReadBoth(l) ==
    /\ ReadLine(l)
    /\ ascii' = AsciiReadLine(ascii, l, line_num)
    /\ input' = Append(input, l)

MaxTwinLines == 4    \* lines of a file given to both extractors

TwinPool ==
    { Comment(TextLayerHeight, Some(0)),                  \* ; layer_height = 0
      Motion(G0, Some(1000), Some(1000), None, None),     \* G0 X10 Y10
      Motion(G1, Some(1000), Some(1000), None, None),     \* G1 X10 Y10
      Motion(G1, Some(0), Some(0), None, Some(0)),        \* G1 X0 Y0 E0
      Motion(G1, Some(1000), Some(0), None, Some(500)),   \* G1 X10 Y0 E5
      Motion(G1, None, Some(1000), None, Some(1000)),     \* G1 Y10 E10
      Motion(G1, None, None, None, Some(200)),            \* G1 E2
      Motion(G0, None, None, Some(20), None),             \* G0 Z0.2
      Motion(G1, None, None, Some(40), None),             \* G1 Z0.4
      Motion(<<"G", "1", "0">>, Some(500), None, None, Some(100)) \* G10 X5 E1
    }

NextTwin ==
    \/ \E l \in TwinPool : line_num < MaxTwinLines /\ ReadBoth(l)
    \/ EndOfFile

SpecTwin == InitParse /\ [][NextTwin]_vars

(***************************************************************************)
(* gcode_to_stl.py: the sampling of create_rectangular_extrusion_mesh.     *)
(* A segment of the argument is represented by its 1-based position in     *)
(* the list.                                                               *)
(***************************************************************************)
KeepUpTo == 10000    \* len(segments) // 10000

\* segments[::st]
Slice(segs, st) == [t \in 1..((Len(segs) + st - 1) \div st) |-> segs[st * (t - 1) + 1]]

\* step = max(1, len(segments) // 10000); sampled_segments = segments[::step]
SampleSegments ==
    /\ pc = "rect"
    /\ LET st == Max(1, Len(rect.segments) \div KeepUpTo)
       IN rect' = [rect EXCEPT !.step = st,
                               !.sampled_segments = Slice(rect.segments, st)]
    /\ pc' = "rect_sampled"
    /\ UNCHANGED <<segments, parseVars, buildVars, stlVars, asciiVars>>

\* the lengths of the lists given to the builder: up to MaxRectLen, the
\* multiples of 500 and the lengths next to a multiple of 1000
MaxRectLen == 20000
RectLens == { n \in 0..MaxRectLen : n % 1000 \in {0, 1, 500, 999} }

InitRect ==
    /\ pc = "rect"
    /\ segments = <<>>
    /\ file = <<>>
    /\ line_num = 0 /\ line = NoLine
    /\ current_z = 0 /\ last_x = None /\ last_y = None /\ last_z = None /\ last_e = 0
    /\ detected_layer_height = default_layer_height
    /\ detected_extrusion_width = default_extrusion_width
    /\ i = 0 /\ vertices = <<>> /\ faces = <<>> /\ vertex_count = 0 /\ base_idx = 0 /\ caps = <<>>
    /\ ascii = AsciiInit /\ input = <<>>
    /\ rect \in { [segments |-> [t \in 1..n |-> t], step |-> 0, sampled_segments |-> <<>>] :
                    n \in RectLens }
    /\ mesh = NoMesh /\ k = 0 /\ run = 0 /\ out1 = <<>>

NextRect == SampleSegments

SpecRect == InitRect /\ [][NextRect]_vars

(***************************************************************************)
(* Exact arithmetic in Q(sqrt 2).  [a, b, d] is (a + b*sqrt(2)) / d with   *)
(* d > 0 and gcd(a, b, d) = 1, so equal numbers are equal records.  The    *)
(* ring of a horizontal, vertical or 45-degree segment with an 8-sided     *)
(* cross-section has all its coordinates in this field.                    *)
(***************************************************************************)
Abs(x) == IF x < 0 THEN -x ELSE x

RECURSIVE GCD(_, _)
GCD(a, b) == IF b = 0 THEN a ELSE GCD(b, a % b)

Q(a, b, d) ==
    LET g == GCD(GCD(Abs(a), Abs(b)), Abs(d))
        s == IF d < 0 THEN -1 ELSE 1
    IN [a |-> (s * a) \div g, b |-> (s * b) \div g, d |-> (s * d) \div g]

QInt(n)    == [a |-> n, b |-> 0, d |-> 1]
QNeg(x)    == [a |-> -x.a, b |-> -x.b, d |-> x.d]
QAdd(x, y) == Q(x.a * y.d + y.a * x.d, x.b * y.d + y.b * x.d, x.d * y.d)
QSub(x, y) == QAdd(x, QNeg(y))
QMul(x, y) == Q(x.a * y.a + 2 * x.b * y.b, x.a * y.b + x.b * y.a, x.d * y.d)
QInv(x)    == Q(x.d * x.a, -(x.d * x.b), x.a * x.a - 2 * x.b * x.b)
QDiv(x, y) == QMul(x, QInv(y))

\* the sign of a + b*sqrt(2)
QSign(x) ==
    IF x.a = 0 /\ x.b = 0 THEN 0
    ELSE IF x.a >= 0 /\ x.b >= 0 THEN 1
    ELSE IF x.a <= 0 /\ x.b <= 0 THEN -1
    ELSE IF x.a > 0 THEN (IF x.a * x.a > 2 * x.b * x.b THEN 1 ELSE -1)
    ELSE (IF 2 * x.b * x.b > x.a * x.a THEN 1 ELSE -1)
QLess(x, y) == QSign(QSub(x, y)) < 0
QAbs(x)     == IF QSign(x) < 0 THEN QNeg(x) ELSE x

\* the square root of a rational x >= 0; exact when x is a square or twice a
\* square, which is the case for every length the segment pools produce
QSqrt(x) ==
    LET n  == x.a * x.d
        r  == ISqrt(n)
        r2 == ISqrt(n \div 2)
    IN IF r * r = n THEN Q(r, 0, x.d)
       ELSE IF 2 * r2 * r2 = n THEN Q(0, r2, x.d)
       ELSE Q(r, 0, x.d)

VSub(u, v)   == <<QSub(u[1], v[1]), QSub(u[2], v[2]), QSub(u[3], v[3])>>
VAdd(u, v)   == <<QAdd(u[1], v[1]), QAdd(u[2], v[2]), QAdd(u[3], v[3])>>
VScale(q, v) == <<QMul(q, v[1]), QMul(q, v[2]), QMul(q, v[3])>>
VDiv(v, q)   == <<QDiv(v[1], q), QDiv(v[2], q), QDiv(v[3], q)>>
Dot(u, v)    == QAdd(QAdd(QMul(u[1], v[1]), QMul(u[2], v[2])), QMul(u[3], v[3]))
\* np.cross
Cross(u, v) ==
    << QSub(QMul(u[2], v[3]), QMul(u[3], v[2])),
       QSub(QMul(u[3], v[1]), QMul(u[1], v[3])),
       QSub(QMul(u[1], v[2]), QMul(u[2], v[1])) >>
\* v / np.linalg.norm(v)
Normalize(v) == VDiv(v, QSqrt(Dot(v, v)))
QVec(p) == <<QInt(p[1]), QInt(p[2]), QInt(p[3])>>

(***************************************************************************)
(* create_cylindrical_extrusion_mesh                                       *)
(*                                                                         *)
(* A mesh is [vertices, faces]: vertices a sequence of positions (triples  *)
(* of Q numbers), faces a sequence of triples of 0-based vertex indices,   *)
(* as in the program: the vertex of index n is vertices[n + 1].            *)
(***************************************************************************)
\* the coordinate a float overflow produces (float('1' + 400 * '0') is inf)
Inf == 2 ^ 30
IsFinite(p) == \A c \in 1..3 : p[c] # Inf

Seg(s, e, w, h, a) ==
    [start |-> s, end |-> e, width |-> w, height |-> h, extrusion_amount |-> a]

\* Segments handed to the builder.  All but the vertical one are segments the
\* extractor emits for some input.
SegPool ==
    { Seg(<<0, 0, 20>>, <<1000, 0, 20>>, 40, 20, 80),          \* along x
      Seg(<<0, 0, 20>>, <<1000, 1000, 20>>, 176, 20, 500),     \* diagonal
      Seg(<<1000, 0, 20>>, <<1000, 0, 20>>, 40, 20, 500),      \* zero length
      Seg(<<0, 0, 0>>, <<1000, 0, 0>>, 40, 0, 500),            \* height 0
      Seg(<<0, 0, 0>>, <<0, 0, 1000>>, 40, 20, 500),           \* vertical
      Seg(<<0, 0, 20>>, <<Inf, 0, 20>>, 10, 20, 500)           \* not finite
    }

\* segments[::step]
Sampled(segs) ==
    [t \in 1..((Len(segs) + step - 1) \div step) |-> segs[step * (t - 1) + 1]]

\* the square of np.linalg.norm(end - start), for finite end points
SegLenSq(seg) ==
    (seg.end[1] - seg.start[1]) * (seg.end[1] - seg.start[1])
  + (seg.end[2] - seg.start[2]) * (seg.end[2] - seg.start[2])
  + (seg.end[3] - seg.start[3]) * (seg.end[3] - seg.start[3])

\* the two tests that end an iteration with continue: segment_length < 0.001
\* (false for a length that is inf or nan), then the finiteness of the end points
Skipped(seg) ==
    IF IsFinite(seg.start) /\ IsFinite(seg.end)
    THEN SegLenSq(seg) * EpsInv * EpsInv < 1
    ELSE TRUE

\* direction = (end - start) / segment_length
Direction(seg) ==
    VDiv(VSub(QVec(seg.end), QVec(seg.start)), QSqrt(QInt(SegLenSq(seg))))

\* the reference vector: world Z unless abs(direction[2]) >= 0.9
UpRef(dir) ==
    IF QLess(QAbs(dir[3]), Q(9, 0, 10)) THEN QVec(<<0, 0, 1>>) ELSE QVec(<<1, 0, 0>>)

Right(seg) == Normalize(Cross(Direction(seg), UpRef(Direction(seg))))
Up(seg)    == Normalize(Cross(Right(seg), Direction(seg)))

\* radius = min(width, height) / 2
Radius(seg) == Q(Min(seg.width, seg.height), 0, 2)

\* np.cos and np.sin of 2 * pi * j / num_sides, for j in 0..7 (num_sides = 8)
Sqrt2Half == Q(0, 1, 2)
CosTab == << QInt(1), Sqrt2Half, QInt(0), QNeg(Sqrt2Half),
             QInt(-1), QNeg(Sqrt2Half), QInt(0), Sqrt2Half >>
SinTab == << QInt(0), Sqrt2Half, QInt(1), Sqrt2Half,
             QInt(0), QNeg(Sqrt2Half), QInt(-1), QNeg(Sqrt2Half) >>

\* offset = right * cos(angle) * radius + up * sin(angle) * radius
Offset(right, up, radius, j) ==
    VAdd(VScale(radius, VScale(CosTab[j + 1], right)),
         VScale(radius, VScale(SinTab[j + 1], up)))

\* start_verts + end_verts
RingVerts(seg) ==
    LET right  == Right(seg)
        up     == Up(seg)
        radius == Radius(seg)
        offset == [j \in 0..(num_sides - 1) |-> Offset(right, up, radius, j)]
    IN [t \in 1..(2 * num_sides) |->
          IF t <= num_sides
          THEN VAdd(QVec(seg.start), offset[t - 1])
          ELSE VAdd(QVec(seg.end), offset[t - 1 - num_sides])]

\* a variant of NextJ: the index does not wrap round the ring
NextJNoWrap(j) == j + 1

\* next_j = (j + 1) % num_sides
NextJ(j) == (j + 1) % num_sides

\* a variant of SidePair: the quad of side j is split along its other diagonal
SidePairOtherDiagonal(base, j) ==
    << <<base + j, base + NextJ(j), base + num_sides + NextJ(j)>>,
       <<base + j, base + num_sides + NextJ(j), base + num_sides + j>> >>

\* the two triangles of side j
SidePair(base, j) ==
    << <<base + j, base + NextJ(j), base + num_sides + j>>,
       <<base + NextJ(j), base + num_sides + NextJ(j), base + num_sides + j>> >>

\* a variant of SideFaces: the side faces start from the ring that ends
\* num_sides vertices before base, so that a tube is welded to the one before it
SideFacesWelded(base) ==
    LET sb == Max(base - num_sides, 0)
    IN [t \in 1..(2 * num_sides) |->
          LET j == (t - 1) \div 2
          IN IF (t - 1) % 2 = 0
             THEN <<sb + j, sb + NextJ(j), base + num_sides + j>>
             ELSE <<sb + NextJ(j), base + num_sides + NextJ(j), base + num_sides + j>>]

\* the faces of the loop "Side faces", in the order they are appended
SideFaces(base) ==
    [t \in 1..(2 * num_sides) |-> SidePair(base, (t - 1) \div 2)[((t - 1) % 2) + 1]]

\* the fan of the start cap around the vertex of index c
StartCapFaces(c, base) ==
    [t \in 1..num_sides |-> <<c, base + NextJ(t - 1), base + (t - 1)>>]
\* the fan of the end cap around the vertex of index c
EndCapFaces(c, base) ==
    [t \in 1..num_sides |->
        <<c, base + num_sides + (t - 1), base + num_sides + NextJ(t - 1)>>]

\* if i == 0 or i == len(sampled_segments) - 1
Capped(idx, n) == idx = 0 \/ idx = n - 1

\* RingVerts tabulated over the pool, so that the rings of a pool segment are
\* computed once; Ring(seg) is RingVerts(seg) for every segment that is built
RingTable == [sg \in SegPool |-> IF Skipped(sg) THEN <<>> ELSE RingVerts(sg)]
Ring(seg) == IF seg \in DOMAIN RingTable THEN RingTable[seg] ELSE RingVerts(seg)

\* the segment of the current iteration
CurSeg == Sampled(segments)[i + 1]
NumSampled == Len(Sampled(segments))

\* continue: the segment is too short or not finite
SkipSegment ==
    /\ pc = "build"
    /\ i < NumSampled
    /\ Skipped(CurSeg)
    /\ i' = i + 1
    /\ UNCHANGED <<pc, segments, vertices, faces, vertex_count, base_idx, caps,
                   parseVars, stlVars, asciiVars, rect>>

\* vertices.extend(start_verts + end_verts)
AddRings ==
    /\ pc = "build"
    /\ i < NumSampled
    /\ ~Skipped(CurSeg)
    /\ base_idx' = vertex_count
    /\ vertices' = vertices \o Ring(CurSeg)
    /\ vertex_count' = vertex_count + 2 * num_sides
    /\ pc' = "sides"
    /\ UNCHANGED <<segments, i, faces, caps, parseVars, stlVars, asciiVars, rect>>

\* the loop "Side faces", then the test of the end caps
AddSides ==
    /\ pc = "sides"
    /\ faces' = faces \o SideFaces(base_idx)
    /\ IF Capped(i, NumSampled)
       THEN pc' = "cap_start" /\ i' = i
       ELSE pc' = "build" /\ i' = i + 1
    /\ UNCHANGED <<segments, vertices, vertex_count, base_idx, caps, parseVars, stlVars, asciiVars, rect>>

\* center_start_idx = vertex_count; vertices.append(start)
AddStartCapVertex ==
    /\ pc = "cap_start"
    /\ vertices' = Append(vertices, QVec(CurSeg.start))
    /\ vertex_count' = vertex_count + 1
    /\ pc' = "cap_start_faces"
    /\ UNCHANGED <<segments, i, faces, base_idx, caps, parseVars, stlVars, asciiVars, rect>>

\* the fan around center_start_idx
AddStartCapFaces ==
    /\ pc = "cap_start_faces"
    /\ faces' = faces \o StartCapFaces(vertex_count - 1, base_idx)
    /\ caps' = Append(caps, [seg |-> i, apex |-> vertex_count - 1,
                           fan |-> Len(StartCapFaces(vertex_count - 1, base_idx))])
    /\ pc' = "cap_end"
    /\ UNCHANGED <<segments, i, vertices, vertex_count, base_idx, parseVars, stlVars, asciiVars, rect>>

\* center_end_idx = vertex_count; vertices.append(end)
AddEndCapVertex ==
    /\ pc = "cap_end"
    /\ vertices' = Append(vertices, QVec(CurSeg.end))
    /\ vertex_count' = vertex_count + 1
    /\ pc' = "cap_end_faces"
    /\ UNCHANGED <<segments, i, faces, base_idx, caps, parseVars, stlVars, asciiVars, rect>>

\* the fan around center_end_idx; the iteration ends
AddEndCapFaces ==
    /\ pc = "cap_end_faces"
    /\ faces' = faces \o EndCapFaces(vertex_count - 1, base_idx)
    /\ caps' = Append(caps, [seg |-> i, apex |-> vertex_count - 1,
                           fan |-> Len(EndCapFaces(vertex_count - 1, base_idx))])
    /\ pc' = "build"
    /\ i' = i + 1
    /\ UNCHANGED <<segments, vertices, vertex_count, base_idx, parseVars, stlVars, asciiVars, rect>>

\* return np.array(vertices), faces
ReturnMesh ==
    /\ pc = "build"
    /\ i = NumSampled
    /\ pc' = "built"
    /\ UNCHANGED <<segments, buildVars, parseVars, stlVars, asciiVars, rect>>

\* the whole of one iteration, on a mesh m
BuildSegment(m, seg, capped) ==
    IF Skipped(seg) THEN m
    ELSE LET base == Len(m.vertices)
             v1 == m.vertices \o Ring(seg)
             f1 == m.faces \o SideFaces(base)
         IN IF capped
            THEN [vertices |-> Append(Append(v1, QVec(seg.start)), QVec(seg.end)),
                  faces |-> (f1 \o StartCapFaces(Len(v1), base))
                                \o EndCapFaces(Len(v1) + 1, base)]
            ELSE [vertices |-> v1, faces |-> f1]

\* the mesh after the first n iterations over the list ss
RECURSIVE BuildUpTo(_, _)
BuildUpTo(ss, n) ==
    IF n = 0 THEN NoMesh
    ELSE BuildSegment(BuildUpTo(ss, n - 1), ss[n], Capped(n - 1, Len(ss)))

\* the mesh the function returns for the argument segs
MeshOf(segs) == BuildUpTo(Sampled(segs), Len(Sampled(segs)))

\* The segments at the positions segments[::step] leaves out are never read
\* by the function: there the lists hold a segment that would be built or one
\* that would be skipped.
DroppedPool ==
    { Seg(<<0, 0, 20>>, <<1000, 0, 20>>, 40, 20, 80),          \* along x
      Seg(<<1000, 0, 20>>, <<1000, 0, 20>>, 40, 20, 500)       \* zero length
    }

SegLists ==
    UNION { { ss \in [1..n -> SegPool] :
                \A t \in 1..n : (t - 1) % step # 0 => ss[t] \in DroppedPool }
            : n \in 0..MaxSegs }

InitMesh ==
    /\ pc = "build"
    /\ segments \in SegLists
    /\ file = <<>>
    /\ InitLocals
    /\ mesh = NoMesh /\ k = 0 /\ run = 0 /\ out1 = <<>>

NextMesh ==
    \/ SkipSegment
    \/ AddRings
    \/ AddSides
    \/ AddStartCapVertex
    \/ AddStartCapFaces
    \/ AddEndCapVertex
    \/ AddEndCapFaces
    \/ ReturnMesh

SpecMesh == InitMesh /\ [][NextMesh]_vars

(***************************************************************************)
(* write_stl_binary                                                        *)
(*                                                                         *)
(* The file is a sequence of bytes.  A byte written by struct.pack of an   *)
(* integer is its value; the four bytes of a packed float32 are kept       *)
(* symbolic: byte idx of the encoding of the float f.  A float is          *)
(* [n, over]: the number n divided by the Euclidean norm of the vector     *)
(* over (a plain number has over = (1, 0, 0)).                             *)
(***************************************************************************)
Plain(v)       == [n |-> v, over |-> QVec(<<1, 0, 0>>)]
Unit(c, t)     == [n |-> c[t], over |-> c]
U8(n)          == [kind |-> "u8", val |-> n, f |-> Plain(QInt(0)), idx |-> 0]
F32Byte(f, t)  == [kind |-> "f32", val |-> 0, f |-> f, idx |-> t]

\* struct.pack('<f', f)
PackF32(f) == [t \in 1..4 |-> F32Byte(f, t - 1)]
\* struct.pack('<fff', v[0], v[1], v[2])
PackFFF(v) == (PackF32(v[1]) \o PackF32(v[2])) \o PackF32(v[3])
\* struct.pack('<I', n): little-endian, low byte first
PackU32(n) == [t \in 1..4 |-> U8((n \div (256 ^ (t - 1))) % 256)]
\* struct.pack('<H', n)
PackU16(n) == [t \in 1..2 |-> U8((n \div (256 ^ (t - 1))) % 256)]

\* b'Ultra high-fidelity G-code conversion - watertight mesh'
HeaderText ==
    << 85, 108, 116, 114, 97, 32, 104, 105, 103, 104, 45,
       102, 105, 100, 101, 108, 105, 116, 121, 32, 71, 45,
       99, 111, 100, 101, 32, 99, 111, 110, 118, 101, 114,
       115, 105, 111, 110, 32, 45, 32, 119, 97, 116, 101,
       114, 116, 105, 103, 104, 116, 32, 109, 101, 115, 104 >>

\* header = b'Ultra ... mesh' + b'\x00' * 24
Header == [t \in 1..Len(HeaderText) |-> U8(HeaderText[t])] \o [t \in 1..HeaderPad |-> U8(0)]

ZeroVec == QVec(<<0, 0, 0>>)

\* a variant of FaceNormal: the cross product is divided by its length
\* whatever the length is
FaceNormalNoGuard(verts, face) ==
    LET v1 == VSub(verts[face[2] + 1], verts[face[1] + 1])
        v2 == VSub(verts[face[3] + 1], verts[face[1] + 1])
        normal == Cross(v1, v2)
    IN <<Unit(normal, 1), Unit(normal, 2), Unit(normal, 3)>>

\* the normal written for a face: the normalized cross product, or (0, 0, 1)
\* when its length is not > 0
FaceNormal(verts, face) ==
    LET v1 == VSub(verts[face[2] + 1], verts[face[1] + 1])
        v2 == VSub(verts[face[3] + 1], verts[face[1] + 1])
        normal == Cross(v1, v2)
    IN IF normal # ZeroVec
       THEN <<Unit(normal, 1), Unit(normal, 2), Unit(normal, 3)>>
       ELSE <<Plain(QInt(0)), Plain(QInt(0)), Plain(QInt(1))>>

PlainVec(v) == <<Plain(v[1]), Plain(v[2]), Plain(v[3])>>

\* a variant of FaceRecord: the three vertices are written last index first
FaceRecordReversed(verts, face) ==
    (((PackFFF(FaceNormal(verts, face))
        \o PackFFF(PlainVec(verts[face[3] + 1])))
        \o PackFFF(PlainVec(verts[face[2] + 1])))
        \o PackFFF(PlainVec(verts[face[1] + 1])))
        \o PackU16(0)

\* the bytes one iteration of "for face in faces" writes
FaceRecord(verts, face) ==
    (((PackFFF(FaceNormal(verts, face))
        \o PackFFF(PlainVec(verts[face[1] + 1])))
        \o PackFFF(PlainVec(verts[face[2] + 1])))
        \o PackFFF(PlainVec(verts[face[3] + 1])))
        \o PackU16(0)

\* a variant of OpenMode: open(filename, 'ab') keeps what the file holds
OpenAppend(old) == old

\* open(filename, 'wb'): the file is created or truncated
OpenMode(old) == <<>>

OpenFile ==
    /\ pc = "open"
    /\ file' = OpenMode(file)
    /\ pc' = "header"
    /\ UNCHANGED <<segments, parseVars, buildVars, mesh, k, run, out1, asciiVars, rect>>

\* f.write(header)
WriteHeader ==
    /\ pc = "header"
    /\ file' = file \o Header
    /\ pc' = "count"
    /\ UNCHANGED <<segments, parseVars, buildVars, mesh, k, run, out1, asciiVars, rect>>

\* f.write(struct.pack('<I', len(faces)))
WriteCount ==
    /\ pc = "count"
    /\ file' = file \o PackU32(Len(mesh.faces))
    /\ k' = 0
    /\ pc' = "faces"
    /\ UNCHANGED <<segments, parseVars, buildVars, mesh, run, out1, asciiVars, rect>>

\* one iteration of "for face in faces"
WriteFace ==
    /\ pc = "faces"
    /\ k < Len(mesh.faces)
    /\ file' = file \o FaceRecord(mesh.vertices, mesh.faces[k + 1])
    /\ k' = k + 1
    /\ UNCHANGED <<pc, segments, parseVars, buildVars, mesh, run, out1, asciiVars, rect>>

\* the end of the with block: the file is closed and the function returns
CloseFile ==
    /\ pc = "faces"
    /\ k = Len(mesh.faces)
    /\ pc' = "written"
    /\ out1' = IF run = 1 THEN file ELSE out1
    /\ UNCHANGED <<segments, parseVars, buildVars, mesh, file, k, run, asciiVars, rect>>

\* a second call with the same vertices, faces and filename
CallAgain ==
    /\ pc = "written"
    /\ run = 1
    /\ run' = 2
    /\ pc' = "open"
    /\ UNCHANGED <<segments, parseVars, buildVars, mesh, file, k, out1, asciiVars, rect>>

\* the meshes handed to the serializer: five vertices, of which 0, 1 and 4 are
\* collinear, and any list of up to MaxFaces faces of FacePool
StlVertices ==
    << QVec(<<0, 0, 0>>), QVec(<<100, 0, 0>>), QVec(<<0, 100, 0>>),
       QVec(<<0, 0, 100>>), QVec(<<200, 0, 0>>) >>
FacePool ==
    { <<0, 1, 2>>, <<2, 1, 0>>, <<1, 2, 3>>, <<0, 0, 0>>, <<0, 1, 1>>, <<0, 1, 4>> }
FaceLists == UNION { [1..n -> FacePool] : n \in 0..MaxFaces }

\* what the destination holds before the first call: nothing, or an older file
OldFiles == { <<>>, <<U8(115), U8(111), U8(108), U8(105), U8(100)>> }

InitStl ==
    /\ pc = "open"
    /\ segments = <<>>
    /\ InitLocals
    /\ mesh \in { [vertices |-> StlVertices, faces |-> fl] : fl \in FaceLists }
    /\ file \in OldFiles
    /\ k = 0 /\ run = 1 /\ out1 = <<>>

NextStl ==
    \/ OpenFile
    \/ WriteHeader
    \/ WriteCount
    \/ WriteFace
    \/ CloseFile
    \/ CallAgain

SpecStl == InitStl /\ [][NextStl]_vars

(***************************************************************************)
(* gcode_to_stl_ultra: the three functions called one after the other.     *)
(* pc ends at "return_True", at "return_False" or, when an open() raises   *)
(* and nothing catches it, at "IOError".                                   *)
(***************************************************************************)
MaxPipeLines == 3    \* lines of an input file of a whole conversion

PipePool ==
    { Comment(TextLayerHeight, Some(0)),                   \* ; layer_height = 0
      Motion(G1, Some(0), Some(0), None, Some(0)),         \* G1 X0 Y0 E0
      Motion(G1, Some(1000), Some(0), None, Some(500)),    \* G1 X10 Y0 E5
      Motion(G1, None, Some(1000), None, Some(1000)),      \* G1 Y10 E10
      Motion(G1, None, None, None, Some(1500)),            \* G1 E15
      Motion(G1, Some(1000), Some(0), Some(20), Some(500)) \* G1 X10 Y0 Z0.2 E5
    }

\* open(gcode_file, 'r') raises: the source cannot be read
SourceUnreadable ==
    /\ pc = "scan"
    /\ line_num = 0
    /\ pc' = "IOError"
    /\ UNCHANGED <<segments, parseVars, buildVars, stlVars, asciiVars, rect>>

\* if not segments: return False
NoSegments ==
    /\ pc = "parsed"
    /\ segments = <<>>
    /\ pc' = "return_False"
    /\ UNCHANGED <<segments, parseVars, buildVars, stlVars, asciiVars, rect>>

\* a variant of CallBuilder: the builder is started on the segments found so
\* far, while lines are still being read
CallBuilderEarly ==
    /\ pc \in {"scan", "parsed"}
    /\ segments # <<>>
    /\ pc' = "build"
    /\ UNCHANGED <<segments, parseVars, buildVars, stlVars, asciiVars, rect>>

\* vertices, faces = create_cylindrical_extrusion_mesh(segments, ...)
CallBuilder ==
    /\ pc = "parsed"
    /\ segments # <<>>
    /\ pc' = "build"
    /\ UNCHANGED <<segments, parseVars, buildVars, stlVars, asciiVars, rect>>

\* if len(vertices) == 0: return False
NoGeometry ==
    /\ pc = "built"
    /\ Len(vertices) = 0
    /\ pc' = "return_False"
    /\ UNCHANGED <<segments, parseVars, buildVars, stlVars, asciiVars, rect>>

\* np.min(vertices, axis=0)[c - 1] and np.max(vertices, axis=0)[c - 1]
AxisMin(vs, c) ==
    CHOOSE m \in {vs[n][c] : n \in 1..Len(vs)} :
        \A n \in 1..Len(vs) : ~QLess(vs[n][c], m)
AxisMax(vs, c) ==
    CHOOSE m \in {vs[n][c] : n \in 1..Len(vs)} :
        \A n \in 1..Len(vs) : ~QLess(m, vs[n][c])
\* np.any(bbox_size <= 0)
BadBBox(vs) == \E c \in 1..3 : QSign(QSub(AxisMax(vs, c), AxisMin(vs, c))) <= 0

\* if np.any(bbox_size <= 0): return False
InvalidBBox ==
    /\ pc = "built"
    /\ Len(vertices) # 0
    /\ BadBBox(vertices)
    /\ pc' = "return_False"
    /\ UNCHANGED <<segments, parseVars, buildVars, stlVars, asciiVars, rect>>

\* write_stl_binary(vertices, faces, stl_file)
CallSerializer ==
    /\ pc = "built"
    /\ Len(vertices) # 0
    /\ ~BadBBox(vertices)
    /\ mesh' = [vertices |-> vertices, faces |-> faces]
    /\ pc' = "open"
    /\ UNCHANGED <<segments, parseVars, buildVars, file, k, run, out1, asciiVars, rect>>

\* open(filename, 'wb') raises: the destination cannot be written
DestinationUnwritable ==
    /\ pc = "open"
    /\ pc' = "IOError"
    /\ UNCHANGED <<segments, parseVars, buildVars, stlVars, asciiVars, rect>>

\* return True
ReturnTrue ==
    /\ pc = "written"
    /\ pc' = "return_True"
    /\ UNCHANGED <<segments, parseVars, buildVars, stlVars, asciiVars, rect>>

InitPipe == InitParse

NextPipe ==
    \/ SourceUnreadable
    \/ \E l \in PipePool : line_num < MaxPipeLines /\ ReadLine(l) /\ UNCHANGED asciiVars
    \/ EndOfFile
    \/ NoSegments
    \/ CallBuilder
    \/ SkipSegment
    \/ AddRings
    \/ AddSides
    \/ AddStartCapVertex
    \/ AddStartCapFaces
    \/ AddEndCapVertex
    \/ AddEndCapFaces
    \/ ReturnMesh
    \/ NoGeometry
    \/ InvalidBBox
    \/ CallSerializer
    \/ DestinationUnwritable
    \/ OpenFile
    \/ WriteHeader
    \/ WriteCount
    \/ WriteFace
    \/ CloseFile
    \/ ReturnTrue

SpecPipe == InitPipe /\ [][NextPipe]_vars

(***************************************************************************)
(* Properties                                                              *)
(***************************************************************************)

\* the bytes of a file that depend on the mesh alone
StlBytes(m) ==
    LET RECURSIVE Records(_)
        Records(n) == IF n = 0 THEN <<>>
                      ELSE Records(n - 1) \o FaceRecord(m.vertices, m.faces[n])
    IN (Header \o PackU32(Len(m.faces))) \o Records(Len(m.faces))

\* the unsigned 32-bit little-endian number at the 0-based byte offset off
ReadU32(f, off) ==
    f[off + 1].val + 256 * f[off + 2].val + 65536 * f[off + 3].val
        + 16777216 * f[off + 4].val

\* C1: for a mesh of F faces the file written is exactly 80 + 4 + 50*F bytes
\* long: an 80-byte header, the face count F as a little-endian unsigned
\* 32-bit number at the byte offsets 80..83, then one 50-byte record per face.
C1_ByteLength ==
    pc = "written" =>
        /\ Len(file) = 80 + 4 + 50 * Len(mesh.faces)
        /\ \A t \in 81..84 : file[t].kind = "u8"
        /\ ReadU32(file, 80) = Len(mesh.faces)

\* the sampled segments the builder does not skip, as 0-based iteration indices
Built == { t \in 0..(NumSampled - 1) : ~Skipped(Sampled(segments)[t + 1]) }
NumBuilt == Cardinality(Built)

\* C2: with M retained non-degenerate segments the mesh returned has exactly
\* 2*N*M + (2 if M > 0) vertices and 2*N*M + (2*N if M > 0) faces.
C2_MeshSize ==
    pc = "built" =>
        /\ Len(vertices) = 2 * num_sides * NumBuilt + (IF NumBuilt > 0 THEN 2 ELSE 0)
        /\ Len(faces) = 2 * num_sides * NumBuilt
                          + (IF NumBuilt > 0 THEN 2 * num_sides ELSE 0)

\* C3: a recognized motion line appends exactly one segment if and only if it
\* carries an E value strictly greater than the extrusion register and both
\* the previously resolved and the newly resolved (x, y) are set; otherwise it
\* appends nothing.  No line read while x or y is still unset appends a segment.
C3_SegmentEmission ==
    [][ (pc = "scan" /\ line_num' = line_num + 1 /\ Recognized(line')) =>
          /\ IF /\ line'.E # None
                /\ Val(line'.E) > last_e
                /\ last_x # None /\ last_y # None
                /\ last_x' # None /\ last_y' # None
             THEN /\ Len(segments') = Len(segments) + 1
                  /\ SubSeq(segments', 1, Len(segments)) = segments
             ELSE segments' = segments
          /\ (last_x = None \/ last_y = None) => segments' = segments
      ]_vars

\* two lines after the first have each appended a segment
C3_Witness == line_num = 3 /\ Len(segments) = 2

\* C4: a recognized motion line that omits X, Y or Z resolves that axis to the
\* value the axis had after the most recent earlier motion line; a resolved
\* axis is never reset to unset or to a default by a later line, and the
\* segment a line appends ends at the resolved position.
C4_CarryForward ==
    [][ (pc = "scan" /\ line_num' = line_num + 1) =>
          /\ (Recognized(line') /\ line'.X = None) => last_x' = last_x
          /\ (Recognized(line') /\ line'.Y = None) => last_y' = last_y
          /\ (Recognized(line') /\ line'.Z = None) => current_z' = current_z
          /\ (Recognized(line') /\ line'.X # None) => last_x' = line'.X
          /\ (Recognized(line') /\ line'.Y # None) => last_y' = line'.Y
          /\ (Recognized(line') /\ line'.Z # None) => current_z' = Val(line'.Z)
          /\ ~Recognized(line') =>
                 (last_x' = last_x /\ last_y' = last_y /\ current_z' = current_z)
          /\ (last_x # None => last_x' # None) /\ (last_y # None => last_y' # None)
          /\ Len(segments') > Len(segments) =>
                 /\ segments'[Len(segments')].start = <<Val(last_x), Val(last_y), current_z'>>
                 /\ segments'[Len(segments')].end = <<Val(last_x'), Val(last_y'), current_z'>>
      ]_vars

\* a line without X has appended a segment that starts and ends at the carried x
C4_Witness ==
    /\ Len(segments) = 2
    /\ Recognized(line) /\ line.X = None /\ line.Y # None
    /\ segments[2].start[1] = 1000
    /\ segments[2].end = <<1000, Val(line.Y), current_z>>

ZeroLength(seg) == seg.start = seg.end
Valid(seg) == ~Skipped(seg)

\* C5: a list of valid segments with zero-length segments inserted at any
\* positions yields the same vertices and faces as the valid segments alone.
C5_DegenerateIdempotence ==
    (pc = "built" /\ \A t \in 1..Len(segments) :
                         Valid(segments[t]) \/ ZeroLength(segments[t])) =>
        [vertices |-> vertices, faces |-> faces] = MeshOf(SelectSeq(segments, Valid))

\* C6: every segment the extractor emits has a width in [0.1, 2.0].
C6_WidthClamp ==
    \A t \in 1..Len(segments) :
        MinWidth <= segments[t].width /\ segments[t].width <= MaxWidth

\* C7: the bytes a call leaves in the file are a function of the mesh alone:
\* they do not depend on what the file held before, and a second call on the
\* same mesh leaves byte for byte what the first call left.
C7_Deterministic ==
    pc = "written" =>
        /\ file = StlBytes(mesh)
        /\ run = 2 => file = out1

\* a second call on a mesh of two faces or more has returned
C7_Witness == pc = "written" /\ run = 2 /\ Len(mesh.faces) >= 2 /\ Len(out1) > 0

\* the first and the last segment built, as 0-based iteration indices
FirstBuilt == CHOOSE t \in Built : \A u \in Built : t <= u
LastBuilt  == CHOOSE t \in Built : \A u \in Built : u <= t

\* C8: only the first and the last segment built receive cap geometry, each
\* exactly one fan of N triangles around one apex vertex at its outward end
\* point: the start point of the first, the end point of the last.
C8_EndCaps ==
    pc = "built" =>
        IF Built = {} THEN caps = <<>>
        ELSE /\ Len(caps) = 2
             /\ caps[1].seg = FirstBuilt /\ caps[1].fan = num_sides
             /\ vertices[caps[1].apex + 1] = QVec(Sampled(segments)[FirstBuilt + 1].start)
             /\ caps[2].seg = LastBuilt /\ caps[2].fan = num_sides
             /\ vertices[caps[2].apex + 1] = QVec(Sampled(segments)[LastBuilt + 1].end)

\* C9: at every point of the build every index stored in a face is >= 0 and
\* less than the number of vertices appended so far.
C9_IndexInvariant ==
    /\ vertex_count = Len(vertices)
    /\ \A t \in 1..Len(faces) : \A c \in 1..3 :
           0 <= faces[t][c] /\ faces[t][c] < Len(vertices)

\* the build of three segments, the middle one without caps, has returned
C9_Witness == pc = "built" /\ Len(caps) = 4 /\ Len(faces) = 10 * num_sides

\* C10: no face of the mesh has its three vertices at the same position.
C10_NoCoincidentFace ==
    \A t \in 1..Len(faces) :
        ~ ( /\ vertices[faces[t][1] + 1] = vertices[faces[t][2] + 1]
            /\ vertices[faces[t][2] + 1] = vertices[faces[t][3] + 1] )

\* C11: a run that returns with no segment extracted, or with no face built,
\* has returned True and has written a file of exactly 84 bytes whose face
\* count, at the byte offsets 80..83, is 0.
C11_EmptyResult ==
    (pc \in {"return_True", "return_False"} /\ (segments = <<>> \/ faces = <<>>))
        => /\ pc = "return_True"
           /\ Len(file) = 84
           /\ ReadU32(file, 80) = 0

\* the line just read is a motion line: its command word is G0 or G1
MotionLine(l) == l.cmd \in {G0, G1}

\* C12: a motion line with an X, Y, Z or E field that is not a number stops
\* the extractor in the error outcome ParseError: the line appends no segment
\* and no axis takes a carried-forward or a new value from it.
C12_ParseError ==
    [][ (pc = "scan" /\ line_num' = line_num + 1
            /\ MotionLine(line') /\ line'.malformed # {}) =>
          /\ pc' = "ParseError"
          /\ segments' = segments
          /\ UNCHANGED <<last_x, last_y, last_e, current_z>>
      ]_vars

\* C13: a line that is neither a comment nor a G0 or G1 command leaves the
\* resolved position, the current Z, the extrusion register, the detected
\* layer height and width and the segment list unchanged.
C13_UnrecognizedSkipped ==
    [][ (pc = "scan" /\ line_num' = line_num + 1
            /\ ~IsComment(line') /\ ~MotionLine(line')) =>
          UNCHANGED <<last_x, last_y, current_z, last_e, segments,
                      detected_layer_height, detected_extrusion_width>>
      ]_vars

\* C14: a motion line with a Z value, read after an earlier motion line with a
\* Z value, sets the detected layer height to d, the new Z minus the Z of
\* that earlier line (the current Z), when 0.1 <= d <= 1.0, and leaves it
\* unchanged otherwise.
C14_ZStep ==
    [][ (pc = "scan" /\ line_num' = line_num + 1
            /\ MotionLine(line') /\ line'.Z # None /\ last_z # None) =>
          LET d == Val(line'.Z) - current_z
          IN IF MinZStep <= d /\ d <= MaxZStep
             THEN detected_layer_height' = d
             ELSE detected_layer_height' = detected_layer_height
      ]_vars

\* the wordings that name the layer height, and those that name the extrusion
\* width, in any case and with a space or an underscore
LayerTexts == {TextLayerHeight, TextBoth, TextUpper}
WidthTexts == {TextExtrusionWidth, TextBoth, TextMixed}

\* the two sources of the layer height: the line l = line', read at index n, is
\* a comment hint that fires; it is a Z step that the code accepts
HintFires(l, n) == n < HintLines /\ IsComment(l) /\ l.text \in LayerTexts /\ l.num # None
ZStepFires(l, lz) ==
    /\ Recognized(l) /\ l.Z # None /\ lz # None
    /\ MinZStep <= Val(l.Z) - Val(lz) /\ Val(l.Z) - Val(lz) <= MaxZStep

\* C15: the detected layer height starts at the default; a line on which a
\* source fires sets it to the value of that source, whatever fired before,
\* and no other step changes it: the value returned is the one written by the
\* last firing in line order, or the default when nothing fired.
C15_LastWriterWins ==
    /\ detected_layer_height = default_layer_height
    /\ [][ IF pc = "scan" /\ line_num' = line_num + 1
           THEN IF ZStepFires(line', last_z)
                THEN detected_layer_height' = Val(line'.Z) - Val(last_z)
                ELSE IF HintFires(line', line_num)
                THEN detected_layer_height' = Val(line'.num)
                ELSE detected_layer_height' = detected_layer_height
           ELSE detected_layer_height' = detected_layer_height
         ]_vars

\* a Z step has fired on the second line (0.4 above the initial 0.0) and a
\* comment hint on the third has overwritten its value
C15_Witness ==
    /\ line_num = 3
    /\ line = Comment(TextLayerHeight, Some(0))
    /\ last_z = Some(20) /\ current_z = 40
    /\ detected_layer_height = 0

\* C16: a motion line with an E value that resolves to the position the
\* previous line resolved (an XY distance of zero) leaves the segment list
\* unchanged.
C16_ZeroLengthDropped ==
    [][ (pc = "scan" /\ line_num' = line_num + 1
            /\ MotionLine(line') /\ line'.E # None
            /\ last_x # None /\ last_y # None
            /\ last_x' = last_x /\ last_y' = last_y) =>
          segments' = segments
      ]_vars

\* C17: a motion line that appends no segment still moves the resolved
\* position to the x and y it resolves, and a segment that a later line
\* appends starts at the position resolved by the motion line before it, not
\* at the end of the segment appended last.
C17_PositionMoves ==
    [][ (pc = "scan" /\ line_num' = line_num + 1 /\ MotionLine(line')) =>
          /\ segments' = segments =>
                /\ last_x' = (IF line'.X # None THEN line'.X ELSE last_x)
                /\ last_y' = (IF line'.Y # None THEN line'.Y ELSE last_y)
          /\ segments' # segments =>
                /\ segments'[Len(segments')].start[1] = Val(last_x)
                /\ segments'[Len(segments')].start[2] = Val(last_y)
      ]_vars

\* the input 'G1 X0 Y0 E0', 'G1 X10 Y0 E5', 'G1 X10 Y10' has been read: the
\* list holds the one segment (0,0,z) -> (10,0,z) and the position is (10,10)
C17_Witness ==
    /\ line_num = 3
    /\ line = Motion(G1, Some(1000), Some(1000), None, None)
    /\ Len(segments) = 1
    /\ segments[1].start = <<0, 0, current_z>>
    /\ segments[1].end = <<1000, 0, current_z>>
    /\ segments[1].extrusion_amount = 500
    /\ last_x = Some(1000) /\ last_y = Some(1000)

\* the stage of a position of gcode_to_stl_ultra: 1 SCANNING, 2 BUILDING,
\* 3 SERIALIZING, 4 DONE, and 0 for a run that has failed
Stage(p) ==
    IF p \in {"scan", "parsed"} THEN 1
    ELSE IF p \in {"build", "sides", "cap_start", "cap_start_faces", "cap_end",
                   "cap_end_faces", "built"} THEN 2
    ELSE IF p \in {"open", "header", "count", "faces", "written"} THEN 3
    ELSE IF p = "return_True" THEN 4
    ELSE 0

\* C18: a run starts in SCANNING; every step stays in its stage, enters the
\* next one or fails; BUILDING is entered only at the end of the input, and
\* from then on the segment list and the number of lines read are fixed;
\* SERIALIZING is entered only from the returned mesh, which is the mesh
\* written and is fixed from then on; a run that has failed or is done takes
\* no further step.
C18_StageOrder ==
    /\ Stage(pc) = 1
    /\ [][ /\ Stage(pc') \in {Stage(pc), Stage(pc) + 1, 0}
           /\ Stage(pc) \in {0, 4} => pc' = pc
           /\ (Stage(pc) = 1 /\ Stage(pc') = 2) => (pc = "parsed" /\ pc' = "build")
           /\ pc # "scan" => UNCHANGED <<segments, line_num, line>>
           /\ (Stage(pc) = 2 /\ Stage(pc') = 3) =>
                  (pc = "built" /\ pc' = "open"
                       /\ mesh' = [vertices |-> vertices, faces |-> faces])
           /\ Stage(pc) = 3 => UNCHANGED <<vertices, faces, mesh>>
         ]_vars

\* a run that went through the four stages and wrote a mesh of 32 faces
C18_Witness ==
    /\ pc = "return_True"
    /\ line_num = MaxPipeLines
    /\ Len(segments) = 2
    /\ Len(mesh.faces) = 4 * num_sides
    /\ Len(file) = Len(Header) + 4 + 50 * Len(faces)

\* C19: a comment line read at a 0-based index >= 100 changes neither the
\* detected layer height nor the detected extrusion width; a comment line
\* read at an index < 100 whose text names the layer height (the extrusion
\* width) and holds a number sets the layer height (the width) to that number.
C19_HintWindow ==
    [][ (pc = "scan" /\ line_num' = line_num + 1 /\ IsComment(line')) =>
          IF line_num >= 100
          THEN UNCHANGED <<detected_layer_height, detected_extrusion_width>>
          ELSE /\ (line'.text \in LayerTexts /\ line'.num # None) =>
                      detected_layer_height' = Val(line'.num)
               /\ (line'.text \in WidthTexts /\ line'.num # None) =>
                      detected_extrusion_width' = Val(line'.num)
      ]_vars

\* '; LAYER_HEIGHT = 0.3' has been read at index 100 and has left in place the
\* 0.25 that '; Layer Height, Extrusion_Width 0.25' had set for both
\* parameters at an index below 100
C19_Witness ==
    /\ line_num = 101
    /\ line = Comment(TextUpper, Some(30))
    /\ detected_layer_height = 25
    /\ detected_extrusion_width = 25

\* the 1-based position in the file of byte b (1..50) of the t-th record, when
\* n records have been written and nothing after them
RecordByte(t, b, n) == Len(file) - 50 * (n - t + 1) + b

\* C20: while and after the faces are written, the t-th 50-byte record written
\* is the one of the t-th face of the list: its bytes 13..48 are the three
\* positions vertices[face[c]], c = 0, 1, 2 in this order, each as three
\* little-endian floats x, y, z, and its last two bytes are 0.
C20_RecordOrder ==
    pc \in {"faces", "written"} =>
        \A t \in 1..k :
            /\ \A c \in 1..3 : \A d \in 1..3 : \A b \in 1..4 :
                   file[RecordByte(t, 12 + 12 * (c - 1) + 4 * (d - 1) + b, k)]
                       = [kind |-> "f32", val |-> 0, idx |-> b - 1,
                          f |-> [n |-> mesh.vertices[mesh.faces[t][c] + 1][d],
                                 over |-> QVec(<<1, 0, 0>>)]]
            /\ file[RecordByte(t, 49, k)].kind = "u8" /\ file[RecordByte(t, 49, k)].val = 0
            /\ file[RecordByte(t, 50, k)].kind = "u8" /\ file[RecordByte(t, 50, k)].val = 0

\* a file of two records has been written for two faces on the same three
\* vertices in opposite orders
C20_Witness ==
    /\ pc = "written"
    /\ mesh.faces = << <<0, 1, 2>>, <<2, 1, 0>> >>
    /\ Len(file) = Len(Header) + 4 + 100

\* the cross product (v1 - v0) x (v2 - v0) of a face of the mesh is the zero
\* vector: two or three of its vertices coincide, or the three are collinear
ZeroCross(face) ==
    LET v0 == mesh.vertices[face[1] + 1]
        v1 == mesh.vertices[face[2] + 1]
        v2 == mesh.vertices[face[3] + 1]
    IN \A c \in 1..3 :
          QSub(QMul(VSub(v1, v0)[1 + (c % 3)], VSub(v2, v0)[1 + ((c + 1) % 3)]),
               QMul(VSub(v1, v0)[1 + ((c + 1) % 3)], VSub(v2, v0)[1 + (c % 3)]))
              = QInt(0)

\* the float written in the bytes 4 * d - 3 .. 4 * d of the t-th of k records is v
NormalIs(t, d, v) ==
    \A b \in 1..4 :
        file[RecordByte(t, 4 * (d - 1) + b, k)]
            = [kind |-> "f32", val |-> 0, idx |-> b - 1,
               f |-> [n |-> QInt(v), over |-> QVec(<<1, 0, 0>>)]]

\* C21: the record of a face whose cross product is the zero vector holds the
\* normal (0, 0, 1); every record written is 50 bytes long, and the call
\* returns only when all the faces, those after such a face too, are written.
C21_DegenerateNormal ==
    /\ pc \in {"faces", "written"} =>
          /\ Len(file) = Len(Header) + 4 + 50 * k
          /\ \A t \in 1..k :
                ZeroCross(mesh.faces[t]) =>
                    (NormalIs(t, 1, 0) /\ NormalIs(t, 2, 0) /\ NormalIs(t, 3, 1))
    /\ pc = "written" => k = Len(mesh.faces)

\* a file has been written for a face with three equal indices followed by a
\* face with a non-zero cross product
C21_Witness ==
    /\ pc = "written"
    /\ mesh.faces = << <<0, 0, 0>>, <<0, 1, 2>> >>
    /\ Len(file) = Len(Header) + 4 + 100

\* the vertices the built segments of 0-based index < n contribute when a
\* segment contributes 2N, and 2N + 1 when it is the first or the last built
RECURSIVE PrefixVerts(_)
PrefixVerts(n) ==
    IF n = 0 THEN 0
    ELSE PrefixVerts(n - 1)
           + (IF n - 1 \notin Built THEN 0
              ELSE IF n - 1 \in {FirstBuilt, LastBuilt} THEN 2 * num_sides + 1
              ELSE 2 * num_sides)

\* C22: the base index of a segment being built is the prefix sum of the
\* contributions of the segments built before it, 2N for a segment without
\* cap and 2N + 1 for a capped one, and its ring indices start where the
\* vertices appended before it end.
C22_PrefixSum ==
    pc = "sides" =>
        /\ base_idx = PrefixVerts(i)
        /\ base_idx + 2 * num_sides = Len(vertices)

\* the ring vertices of the segment seg are in the mesh, as 2N consecutive
\* vertices
HasTube(seg) ==
    \E b \in 0..(Len(vertices) - 2 * num_sides) :
        SubSeq(vertices, b + 1, b + 2 * num_sides) = Ring(seg)

\* C23: in a whole conversion the mesh the builder returns holds one tube,
\* two rings of N vertices, for every non-degenerate segment the extractor
\* emitted: none is left out by a sampling of the list.
C23_NoSampling ==
    pc = "built" =>
        /\ Len(vertices) - Len(caps) = 2 * num_sides * Len(SelectSeq(segments, Valid))
        /\ \A t \in 1..Len(segments) : Valid(segments[t]) => HasTube(segments[t])

\* C24: the step that appends the side faces of a segment appends exactly 2N
\* faces: for each ring edge j, with j' = (j + 1) mod N, the triangle
\* (s_j, s_j', e_j) and then the triangle (s_j', e_j', e_j), where s_j and e_j
\* are the indices of the j-th vertex of the start ring and of the end ring of
\* the segment being built, the last 2N vertices appended.
C24_SideFaces ==
    [][ pc = "sides" =>
          LET b == Len(vertices) - 2 * num_sides
              n == Len(faces)
          IN /\ SubSeq(vertices, b + 1, b + 2 * num_sides) = Ring(CurSeg)
             /\ Len(faces') = n + 2 * num_sides
             /\ SubSeq(faces', 1, n) = faces
             /\ \A j \in 0..(num_sides - 1) :
                   LET j2 == (j + 1) % num_sides
                   IN /\ faces'[n + 2 * j + 1] = <<b + j, b + j2, b + num_sides + j>>
                      /\ faces'[n + 2 * j + 2]
                             = <<b + j2, b + num_sides + j2, b + num_sides + j>>
      ]_vars

\* a capped segment and then a segment without caps have been built
C24_Witness ==
    /\ pc = "build" /\ i = 2 /\ NumSampled = 3
    /\ Len(vertices) = 4 * num_sides + 2
    /\ Len(faces) = 6 * num_sides

\* C25: whatever the length of the list, the mesh builder of gcode_to_stl.py
\* goes over at most 10000 sampled segments.
C25_SegmentCap ==
    pc = "rect_sampled" => Len(rect.sampled_segments) <= 10000

\* the E values of the motion lines with an E field among the lines inp, in
\* line order
EBearing(l) == Recognized(l) /\ l.E # None
EValues(inp) ==
    LET es == SelectSeq(inp, EBearing)
    IN [n \in 1..Len(es) |-> Val(es[n].E)]

\* C26: in gcode_to_stl.py a motion line whose E value is not greater than
\* the E value of the motion line with an E field before it appends no
\* segment.
C26_PositiveEMovement ==
    [][ (pc = "scan" /\ line_num' = line_num + 1
            /\ EBearing(line') /\ EValues(input) # <<>>
            /\ Val(line'.E) <= EValues(input)[Len(EValues(input))]) =>
          ascii'.segments = ascii.segments
      ]_vars

\* C27: every appended segment is horizontal, its start and end carrying the
\* Z in force after the line's own Z field was applied (0.0 before any Z
\* field); so for every segment the builder builds the reference vector is
\* world Z and the world-X fallback is not taken.
C27_HorizontalSegments ==
    [][ /\ (pc = "scan" /\ segments' # segments) =>
              /\ Len(segments') = Len(segments) + 1
              /\ segments'[Len(segments')].start[3] = current_z'
              /\ segments'[Len(segments')].end[3] = current_z'
              /\ current_z' = IF line'.Z # None THEN Val(line'.Z) ELSE current_z
        /\ \A t \in 1..Len(segments) : segments[t].start[3] = segments[t].end[3]
        /\ (pc = "build" /\ i < NumSampled /\ ~Skipped(CurSeg)) =>
              UpRef(Direction(CurSeg)) = QVec(<<0, 0, 1>>)
      ]_vars

\* the builder is at a segment that was appended at Z 0.2 by a line with a Z
\* field, and builds it
C27_Witness ==
    /\ pc = "build" /\ i < NumSampled /\ ~Skipped(CurSeg)
    /\ CurSeg.start[3] = 20 /\ CurSeg.end[3] = 20
    /\ line_num = 2

\* the largest E value among the lines inp (0 when there is none)
RECURSIVE MaxOf(_)
MaxOf(es) == IF es = <<>> THEN 0 ELSE Max(Head(es), MaxOf(Tail(es)))
EarlierMaximum(inp) == MaxOf(EValues(inp))

\* a recognized motion line is read
MotionStep == pc = "scan" /\ line_num' = line_num + 1 /\ Recognized(line')

\* after the line the register is the line's E value, or unchanged without one
RegisterTracks ==
    MotionStep => last_e' = IF line'.E # None THEN Val(line'.E) ELSE last_e

\* an appended segment carries the positive difference to the old register
AmountIsDifference ==
    (MotionStep /\ segments' # segments) =>
        /\ line'.E # None
        /\ segments'[Len(segments')].extrusion_amount = Val(line'.E) - last_e
        /\ segments'[Len(segments')].extrusion_amount > 0

\* the register was lowered below an earlier E value, and the line's E value
\* lies between the register and that earlier maximum
AfterRetraction ==
    /\ MotionStep /\ line'.E # None
    /\ last_e < EarlierMaximum(input)
    /\ last_e < Val(line'.E) /\ Val(line'.E) < EarlierMaximum(input)

\* the old and the new position are both known
PositionsResolved ==
    /\ last_x # None /\ last_y # None
    /\ ResolveAxis(line'.X, last_x) # None /\ ResolveAxis(line'.Y, last_y) # None

\* C28 as stated: the register follows the E value of every recognized motion
\* line that has one, also downwards; an appended segment has a positive
\* extrusion_amount, its line's E minus the register; and after a retraction
\* the next motion line whose E exceeds the retracted value appends a segment
\* although E is below the earlier maximum.
C28_RegisterAsStated ==
    [][ /\ RegisterTracks
        /\ AmountIsDifference
        /\ AfterRetraction => Len(segments') = Len(segments) + 1
      ]_vars

\* C28 amended: the same, where the line after the retraction appends a
\* segment provided the previous position and the new position are resolved.
C28_RegisterTracking ==
    [][ /\ RegisterTracks
        /\ AmountIsDifference
        /\ (AfterRetraction /\ PositionsResolved) =>
              Len(segments') = Len(segments) + 1
      ]_vars

\* 'G1 Y10 E10', 'G1 X0 Y0 E0', 'G1 X10 Y0 E5': the register went from 10 to
\* 0, and the line with E5 has appended a segment of amount 5
C28_Witness ==
    /\ pc = "scan" /\ Len(input) = 3
    /\ EValues(input) = <<1000, 0, 500>>
    /\ last_e = 500
    /\ Len(segments) = 1 /\ segments[1].extrusion_amount = 500

\* the E values of the motion lines of inp are positive and strictly increasing
Monotone(inp) ==
    LET es == EValues(inp)
    IN \A n \in 1..Len(es) : es[n] > 0 /\ (n > 1 => es[n - 1] < es[n])

\* C29: on an input whose motion lines carry positive, strictly increasing E
\* values, the extractor of gcode_to_stl.py and the one of
\* gcode_to_stl_ultra.py have appended equally many segments with the same
\* start, end and height in the same order, and hold the same layer height
\* and extrusion width.
C29_ExtractorsAgree ==
    Monotone(input) =>
        /\ Len(ascii.segments) = Len(segments)
        /\ \A t \in 1..Len(segments) :
              /\ ascii.segments[t].start = segments[t].start
              /\ ascii.segments[t].end = segments[t].end
              /\ ascii.segments[t].height = segments[t].height
        /\ ascii.detected_layer_height = detected_layer_height
        /\ ascii.detected_extrusion_width = detected_extrusion_width

\* '; layer_height = 0', 'G0 X10 Y10', 'G1 X10 Y0 E5', 'G1 Y10 E10': two
\* segments of height 0.0 from each extractor
C29_Witness ==
    /\ Monotone(input) /\ Len(input) = 4
    /\ EValues(input) = <<500, 1000>>
    /\ Len(segments) = 2 /\ Len(ascii.segments) = 2
    /\ segments[1].height = 0 /\ detected_layer_height = 0

\* the number of vertices appended by the iterations of 0-based index < n
\* over the list ss: two rings for a segment that is built, and two apex
\* vertices more when the iteration is the first or the last of the list
RECURSIVE AppendedBefore(_, _)
AppendedBefore(ss, n) ==
    IF n = 0 THEN 0
    ELSE AppendedBefore(ss, n - 1)
           + (IF Skipped(ss[n]) THEN 0
              ELSE IF Capped(n - 1, Len(ss)) THEN 2 * num_sides + 2
              ELSE 2 * num_sides)

\* the index of the first vertex of each iteration, and of the one after the
\* last, as a sequence: FirstVertex[t + 1] belongs to the iteration of index t
FirstVertex ==
    LET ss == Sampled(segments)
    IN [t \in 1..(Len(ss) + 1) |-> AppendedBefore(ss, t - 1)]

\* the iteration that appended the vertex of index v, given the sequence fv
OwnerOf(fv, v) == CHOOSE t \in 1..(Len(fv) - 1) : fv[t] <= v /\ v < fv[t + 1]

\* C30: every face of the mesh references only vertices appended for one and
\* the same segment (its two rings and its apex vertices); no face references
\* a vertex of another segment.
C30_FaceLocality ==
    (pc \in {"build", "built"} /\ faces # <<>>) =>
        LET fv == FirstVertex
        IN /\ \A n \in 1..Len(faces) :
                 /\ \A c \in 1..3 : faces[n][c] \in 0..(Len(vertices) - 1)
                 /\ OwnerOf(fv, faces[n][1]) = OwnerOf(fv, faces[n][2])
                 /\ OwnerOf(fv, faces[n][1]) = OwnerOf(fv, faces[n][3])
           /\ pc = "built" => fv[NumSampled + 1] = Len(vertices)

\* a mesh of three tubes is returned: the first and the last with their apex
\* vertices, the middle one of rings only
C30_Witness ==
    /\ pc = "built" /\ NumSampled = 3 /\ NumBuilt = 3
    /\ Len(vertices) = 6 * num_sides + 4
    /\ Len(faces) = 10 * num_sides

====
